---- MODULE Spec2Model ----
(***************************************************************************)
(* Model of scripts/ocr_backend.py: the PaddleOCR bridge.                  *)
(*                                                                         *)
(* The module-level engine construction (primary configuration, fallback   *)
(* configuration, else None) and the POST /ocr handler perform_ocr are     *)
(* modelled.  perform_ocr is a coroutine: it runs on the single event loop *)
(* of uvicorn.run(app) and gives the loop up only at an await.  Strings    *)
(* are sequences of one-character strings, so that lower(), endswith()     *)
(* and "\n".join() are computed and not assumed.                           *)
(***************************************************************************)
EXTENDS Integers, Sequences, FiniteSets, TLC

(*************************** bounds of the model ***************************)
\* number of POST /ocr requests in one run
NumRequests == 2
\* page results in one engine output
MaxItems == 2
\* recognised lines in one page result
MaxLines == 2
\* largest page_index the engine declares
MaxPageIndex == 1

Req == 1..NumRequests

(******************************* strings ***********************************)
NL == "\n"

\* str.lower() on the characters that occur in the modelled filenames
LowerChar(c) ==
    CASE c = "A" -> "a"
      [] c = "P" -> "p"
      [] c = "D" -> "d"
      [] c = "F" -> "f"
      [] OTHER -> c

Lower(s) == [i \in 1..Len(s) |-> LowerChar(s[i])]

EndsWith(s, suffix) ==
    /\ Len(s) >= Len(suffix)
    /\ SubSeq(s, Len(s) - Len(suffix) + 1, Len(s)) = suffix

\* sep.join(parts): nothing for no part, no separator after the last part
RECURSIVE Join(_, _)
Join(parts, sep) ==
    IF parts = <<>> THEN <<>>
    ELSE IF Len(parts) = 1 THEN parts[1]
    ELSE parts[1] \o <<sep>> \o Join(Tail(parts), sep)

(****************************** the upload *********************************)
DotPdf == <<".", "p", "d", "f">>
UnknownPdf == <<"u", "n", "k", "n", "o", "w", "n">> \o DotPdf

\* file.filename of the uploads: a mixed-case PDF name, an image name, no name
Filenames == { <<"A", ".", "P", "D", "F">>, <<"b", ".", "p", "n", "g">>, <<>> }

\* filename = (file.filename or "unknown.pdf").lower()
filename(fn) == Lower(IF fn = <<>> THEN UnknownPdf ELSE fn)

IsPdf(fn) == EndsWith(filename(fn), DotPdf)

\* temp_path = f"temp_{file.filename}"
TempPath(fn) == <<"t", "e", "m", "p", "_">> \o fn

NoPath == <<>>
Paths == { TempPath(fn) : fn \in Filenames }

(************************* the engine's outputs ****************************)
Chr == <<"a", "b", "c", "d", "e", "f", "g", "h">>

\* the text, score (in hundredths) and polygon of line i of page result k
LineText(k, i) == <<Chr[k], Chr[i]>>
LineScore(k, i) == 90 + k + i
LinePoly(k, i) == << <<k, i>>, <<k + 1, i + 1>> >>

\* Contract B: the record behind OCRResult.json of page result k with n lines,
\* whose rec_scores and dt_polys are short by `dropped` entries
BRecord(k, n, dropped) ==
    LET m == IF n >= dropped THEN n - dropped ELSE 0
    IN  [rec_texts  |-> [i \in 1..n |-> LineText(k, i)],
         rec_scores |-> [i \in 1..m |-> LineScore(k, i)],
         dt_polys   |-> [i \in 1..m |-> [ndarray |-> LinePoly(k, i)]]]

WithIndex(rec, idx) ==
    [key \in DOMAIN rec \cup {"page_index"} |->
        IF key = "page_index" THEN idx ELSE rec[key]]

\* the page result object: .json is {'res': record} or the record itself
BItem(rec, wrapped) == [json |-> IF wrapped THEN [res |-> rec] ELSE rec]

BItems(k, dropped, wrapped) ==
    { BItem(BRecord(k, n, dropped), wrapped) : n \in 0..MaxLines }
    \cup { BItem(WithIndex(BRecord(k, n, dropped), idx), wrapped) :
              n \in 0..MaxLines, idx \in 0..MaxPageIndex }

\* Contract A: a page is a sequence of (polygon, (text, confidence)); a null
\* page is a page of no lines.  Such an object has no .json attribute.
AItem(k, n) ==
    [lines |-> [i \in 1..n |-> <<LinePoly(k, i), <<LineText(k, i), LineScore(k, i)>> >>]]

AItems(k) == { AItem(k, n) : n \in 0..MaxLines }

RECURSIVE BPredictions(_, _, _)
BPredictions(len, dropped, wrapped) ==
    IF len = 0 THEN { <<>> }
    ELSE { Append(p, it) : p \in BPredictions(len - 1, dropped, wrapped),
                           it \in BItems(len, dropped, wrapped) }

RECURSIVE APredictions(_)
APredictions(len) ==
    IF len = 0 THEN { <<>> }
    ELSE { Append(p, it) : p \in APredictions(len - 1), it \in AItems(len) }

\* every engine output the normalisation is checked on
EngineOutputs ==
    UNION { BPredictions(len, dropped, wrapped) :
              len \in 0..MaxItems, dropped \in 0..1, wrapped \in BOOLEAN }
    \cup UNION { APredictions(len) : len \in 1..MaxItems }

(*************************** the normalisation *****************************)
\* dict.get(key, default)
Get(d, key, default) == IF key \in DOMAIN d THEN d[key] ELSE default

\* item.json raises AttributeError on an object without that attribute
HasJson(item) == "json" \in DOMAIN item

\* res = item.json.get('res', item.json)
Res(item) == Get(item.json, "res", item.json)

\* an off-by-one numbering: the declared index taken as the page number
PageNumNoIncrement(res, n) ==
    IF "page_index" \in DOMAIN res THEN res.page_index ELSE n + 1

\* page_num = (page_index if page_index is not None else len(pages)) + 1
PageNum(res, n) ==
    (IF "page_index" \in DOMAIN res THEN res.page_index ELSE n) + 1

\* confidence = float(rec_scores[i]) if i < len(rec_scores) else 0.0
Confidence(rec_scores, i) == IF i <= Len(rec_scores) THEN rec_scores[i] ELSE 0

\* box = dt_polys[i] if i < len(dt_polys) else []; box.tolist() on an ndarray
Box(dt_polys, i) ==
    IF i <= Len(dt_polys)
    THEN (IF "ndarray" \in DOMAIN dt_polys[i] THEN dt_polys[i].ndarray ELSE dt_polys[i])
    ELSE <<>>

\* the body of `for item in prediction`
NormaliseItem(acc, item) ==
    LET res == Res(item)
        rec_texts == Get(res, "rec_texts", <<>>)
        rec_scores == Get(res, "rec_scores", <<>>)
        dt_polys == Get(res, "dt_polys", <<>>)
        page_num == PageNum(res, Len(acc.pages))
        page_lines == [i \in 1..Len(rec_texts) |-> rec_texts[i]]
        lines == [i \in 1..Len(rec_texts) |->
                    [text |-> rec_texts[i],
                     confidence |-> Confidence(rec_scores, i),
                     box |-> Box(dt_polys, i),
                     page |-> page_num]]
    IN  [raised |-> FALSE,
         extracted_text |-> acc.extracted_text \o page_lines,
         raw_results |-> acc.raw_results \o lines,
         pages |-> Append(acc.pages, [page_number |-> page_num,
                                      text |-> Join(page_lines, NL),
                                      line_count |-> Len(page_lines)])]

\* the loop from item k on; an item without .json raises and ends it
RECURSIVE NormaliseFrom(_, _, _)
NormaliseFrom(prediction, k, acc) ==
    IF k > Len(prediction) THEN acc
    ELSE IF ~HasJson(prediction[k]) THEN [acc EXCEPT !.raised = TRUE]
    ELSE NormaliseFrom(prediction, k + 1, NormaliseItem(acc, prediction[k]))

Normalise(prediction) ==
    NormaliseFrom(prediction, 1,
        [raised |-> FALSE, extracted_text |-> <<>>, raw_results |-> <<>>, pages |-> <<>>])

\* the returned dict
OcrResponse(n) ==
    [text |-> Join(n.extracted_text, NL),
     results |-> n.raw_results,
     pages |-> n.pages,
     page_count |-> Len(n.pages),
     engine |-> "paddle"]

(****************************** responses **********************************)
\* return {...}: the handler's 200 answer
Return(body) == [kind |-> "return", status |-> 200, body |-> body]

\* raise HTTPException(status_code=status, detail=detail)
HTTPException(status, detail) ==
    [kind |-> "HTTPException", status |-> status, body |-> [detail |-> detail]]

\* an exception that leaves perform_ocr uncaught: the server answers a bare
\* 500 that carries neither the handler's detail nor its return value
Uncaught(exc) == [kind |-> "exception", status |-> 500, body |-> [exception |-> exc]]

NoResponse == [kind |-> "none", status |-> 0, body |-> [none |-> TRUE]]

\* except Exception as e: raise HTTPException(status_code=500, detail=str(e))
Except(e) == HTTPException(500, e)

(******************************** files ************************************)
Absent == [owner |-> 0, data |-> "none"]
NotRead == [owner |-> 0, data |-> "unread"]

\* the file request r wrote: its own bytes, whole or cut short by a failed write
FileOf(r, data) == [owner |-> r, data |-> data]

(***************************** engine handle *******************************)
\* a construction that forgets to ask for the orientation model
PrimaryConfigNoOrientation == [config |-> "primary", use_textline_orientation |-> FALSE]

\* ocr = PaddleOCR(use_textline_orientation=True, lang='en')
PrimaryConfig == [config |-> "primary", use_textline_orientation |-> TRUE]

\* ocr = PaddleOCR(lang='en'): orientation is whatever the engine defaults to
BasicConfig(engine_default) ==
    [config |-> "basic", use_textline_orientation |-> engine_default]

\* ocr = None
NoEngine == [config |-> "none", use_textline_orientation |-> FALSE]

\* a handler that never looks at the handle
EngineUnavailableUnchecked(handle) == FALSE

\* if ocr is None
EngineUnavailable(handle) == handle = NoEngine

(***************************** the event loop ******************************)
\* the blocking engine call handed to a worker thread and awaited
AwaitPointsWithPredict == {"read", "predict"}

\* the positions at which perform_ocr awaits: contents = await file.read()
AwaitPoints == {"read"}

\* what the engine answers in a run of concurrent requests
ServedOutputs ==
    { <<>>,
      <<BItem(BRecord(1, 1, 0), TRUE)>>,
      <<AItem(1, 1)>> }

VARIABLES
    started,          \* the module-level code has run
    ocr,              \* the global engine handle
    loop,             \* the request whose coroutine runs on the event loop, or 0
    pc,               \* each request's position in perform_ocr
    file,             \* file.filename of each request
    upload_read,      \* file.read() returned the upload's bytes
    temp_path,        \* temp_path
    input_data,       \* "none", "path" (temp_path) or "array" (img_array)
    calls,            \* invocations of ocr.predict by each request
    orientation_used, \* the orientation setting of the handle at the invocation
    seen,             \* the file the engine read at temp_path
    prediction,       \* what ocr.predict returned
    pending,          \* the return value or exception on its way out through finally
    remove_failed,    \* os.remove raised
    response,         \* what left the handler
    fs                \* the files at the temporary paths

vars == <<started, ocr, loop, pc, file, upload_read, temp_path, input_data, calls,
          orientation_used, seen, prediction, pending, remove_failed, response, fs>>

Init ==
    /\ started = FALSE
    /\ ocr = NoEngine
    /\ loop = 0
    /\ pc = [r \in Req |-> "idle"]
    /\ file = [r \in Req |-> <<>>]
    /\ upload_read = [r \in Req |-> FALSE]
    /\ temp_path = [r \in Req |-> NoPath]
    /\ input_data = [r \in Req |-> "none"]
    /\ calls = [r \in Req |-> 0]
    /\ orientation_used = [r \in Req |-> "none"]
    /\ seen = [r \in Req |-> NotRead]
    /\ prediction = [r \in Req |-> <<>>]
    /\ pending = [r \in Req |-> NoResponse]
    /\ remove_failed = [r \in Req |-> FALSE]
    /\ response = [r \in Req |-> NoResponse]
    /\ fs = [p \in Paths |-> Absent]

\* a coroutine at an await (or not yet started) resumes when the loop is
\* free; between awaits it keeps the loop
Runnable(r) == IF pc[r] \in AwaitPoints \cup {"idle"} THEN loop = 0 ELSE loop = r

\* who holds the loop once the coroutine has moved to `label`
Holder(r, label) == IF label \in AwaitPoints \cup {"done"} THEN 0 ELSE r

\* the module-level try/except around the two PaddleOCR constructions
Startup ==
    /\ ~started
    /\ started' = TRUE
    /\ \/ ocr' = PrimaryConfig
       \/ \E engine_default \in BOOLEAN : ocr' = BasicConfig(engine_default)
       \/ ocr' = NoEngine
    /\ UNCHANGED <<loop, pc, file, upload_read, temp_path, input_data, calls,
                   orientation_used, seen, prediction, pending, remove_failed,
                   response, fs>>

\* perform_ocr up to its first await: the handle check, temp_path = None
Receive(r) ==
    /\ started
    /\ pc[r] = "idle"
    /\ Runnable(r)
    /\ \E fn \in Filenames : file' = [file EXCEPT ![r] = fn]
    /\ IF EngineUnavailable(ocr)
       THEN /\ response' = [response EXCEPT ![r] =
                               HTTPException(503, "PaddleOCR failed to initialize")]
            /\ pc' = [pc EXCEPT ![r] = "done"]
            /\ loop' = Holder(r, "done")
       ELSE /\ pc' = [pc EXCEPT ![r] = "read"]
            /\ loop' = Holder(r, "read")
            /\ UNCHANGED response
    /\ UNCHANGED <<started, ocr, upload_read, temp_path, input_data, calls,
                   orientation_used, seen, prediction, pending, remove_failed, fs>>

\* contents = await file.read()
ReadUpload(r) ==
    /\ pc[r] = "read"
    /\ Runnable(r)
    /\ \/ /\ upload_read' = [upload_read EXCEPT ![r] = TRUE]
          /\ pc' = [pc EXCEPT ![r] = "prepare"]
          /\ loop' = Holder(r, "prepare")
          /\ UNCHANGED pending
       \/ /\ pending' = [pending EXCEPT ![r] = Except("read failed")]
          /\ pc' = [pc EXCEPT ![r] = "finally"]
          /\ loop' = Holder(r, "finally")
          /\ UNCHANGED upload_read
    /\ UNCHANGED <<started, ocr, file, temp_path, input_data, calls,
                   orientation_used, seen, prediction, remove_failed, response, fs>>

\* the input dispatch: a temporary file for a .pdf name, a decoded array otherwise
Prepare(r) ==
    /\ pc[r] = "prepare"
    /\ Runnable(r)
    /\ IF IsPdf(file[r])
       THEN /\ temp_path' = [temp_path EXCEPT ![r] = TempPath(file[r])]
            /\ \/ \* open() raises: nothing is written
                  /\ pending' = [pending EXCEPT ![r] = Except("cannot open temp file")]
                  /\ pc' = [pc EXCEPT ![r] = "finally"]
                  /\ loop' = Holder(r, "finally")
                  /\ UNCHANGED <<fs, input_data>>
               \/ \* f.write() raises after the file was created
                  /\ fs' = [fs EXCEPT ![TempPath(file[r])] = FileOf(r, "partial")]
                  /\ pending' = [pending EXCEPT ![r] = Except("cannot write temp file")]
                  /\ pc' = [pc EXCEPT ![r] = "finally"]
                  /\ loop' = Holder(r, "finally")
                  /\ UNCHANGED input_data
               \/ /\ fs' = [fs EXCEPT ![TempPath(file[r])] = FileOf(r, "full")]
                  /\ input_data' = [input_data EXCEPT ![r] = "path"]
                  /\ pc' = [pc EXCEPT ![r] = "predict"]
                  /\ loop' = Holder(r, "predict")
                  /\ UNCHANGED pending
       ELSE /\ \/ \* Image.open() raises on bytes that are no image
                  /\ pending' = [pending EXCEPT ![r] = Except("cannot identify image file")]
                  /\ pc' = [pc EXCEPT ![r] = "finally"]
                  /\ loop' = Holder(r, "finally")
                  /\ UNCHANGED input_data
               \/ /\ input_data' = [input_data EXCEPT ![r] = "array"]
                  /\ pc' = [pc EXCEPT ![r] = "predict"]
                  /\ loop' = Holder(r, "predict")
                  /\ UNCHANGED pending
            /\ UNCHANGED <<temp_path, fs>>
    /\ UNCHANGED <<started, ocr, file, upload_read, calls, orientation_used, seen,
                   prediction, remove_failed, response>>

\* prediction = ocr.predict(input_data), on a handle that is an engine
Invoke(r, outputs) ==
    /\ calls' = [calls EXCEPT ![r] = @ + 1]
    /\ orientation_used' = [orientation_used EXCEPT ![r] =
                               IF ocr.use_textline_orientation THEN "on" ELSE "off"]
    /\ seen' = [seen EXCEPT ![r] =
                   IF input_data[r] = "path" THEN fs[temp_path[r]] ELSE @]
    /\ \/ \* the engine raises; it cannot but raise on a file that is gone
          /\ pending' = [pending EXCEPT ![r] = Except("engine error")]
          /\ pc' = [pc EXCEPT ![r] = "finally"]
          /\ loop' = Holder(r, "finally")
          /\ UNCHANGED prediction
       \/ /\ input_data[r] = "path" => fs[temp_path[r]] # Absent
          /\ \E out \in outputs : prediction' = [prediction EXCEPT ![r] = out]
          /\ pc' = [pc EXCEPT ![r] = "normalise"]
          /\ loop' = Holder(r, "normalise")
          /\ UNCHANGED pending

Predict(r) ==
    /\ pc[r] = "predict"
    /\ Runnable(r)
    /\ IF ocr = NoEngine
       THEN \* None has no predict: AttributeError, nothing is invoked
            /\ pending' = [pending EXCEPT ![r] = Except("AttributeError")]
            /\ pc' = [pc EXCEPT ![r] = "finally"]
            /\ loop' = Holder(r, "finally")
            /\ UNCHANGED <<calls, orientation_used, seen, prediction>>
       ELSE Invoke(r, ServedOutputs)
    /\ UNCHANGED <<started, ocr, file, upload_read, temp_path, input_data,
                   remove_failed, response, fs>>

\* the loop over prediction and the return statement
BuildResponse(r) ==
    /\ pc[r] = "normalise"
    /\ Runnable(r)
    /\ LET n == Normalise(prediction[r])
       IN  pending' = [pending EXCEPT ![r] =
                          IF n.raised THEN Except("AttributeError")
                          ELSE Return(OcrResponse(n))]
    /\ pc' = [pc EXCEPT ![r] = "finally"]
    /\ loop' = Holder(r, "finally")
    /\ UNCHANGED <<started, ocr, file, upload_read, temp_path, input_data, calls,
                   orientation_used, seen, prediction, remove_failed, response, fs>>

\* a finally clause that removes nothing
CleanupSkipped(r) == FALSE

\* if temp_path and os.path.exists(temp_path)
CleanupNeeded(r) == temp_path[r] # NoPath /\ fs[temp_path[r]] # Absent

\* finally: remove the temporary file, then let the pending outcome out
Finally(r) ==
    /\ pc[r] = "finally"
    /\ Runnable(r)
    /\ \/ /\ ~CleanupNeeded(r)
          /\ response' = [response EXCEPT ![r] = pending[r]]
          /\ UNCHANGED <<fs, remove_failed>>
       \/ \* os.remove(temp_path) removes the file
          /\ CleanupNeeded(r)
          /\ fs' = [fs EXCEPT ![temp_path[r]] = Absent]
          /\ response' = [response EXCEPT ![r] = pending[r]]
          /\ UNCHANGED remove_failed
       \/ \* os.remove(temp_path) raises: the OSError replaces the pending outcome
          /\ CleanupNeeded(r)
          /\ remove_failed' = [remove_failed EXCEPT ![r] = TRUE]
          /\ response' = [response EXCEPT ![r] = Uncaught("OSError")]
          /\ UNCHANGED fs
    /\ pc' = [pc EXCEPT ![r] = "done"]
    /\ loop' = Holder(r, "done")
    /\ UNCHANGED <<started, ocr, file, upload_read, temp_path, input_data, calls,
                   orientation_used, seen, prediction, pending>>

Next ==
    \/ Startup
    \/ \E r \in Req : Receive(r)
    \/ \E r \in Req : ReadUpload(r)
    \/ \E r \in Req : Prepare(r)
    \/ \E r \in Req : Predict(r)
    \/ \E r \in Req : BuildResponse(r)
    \/ \E r \in Req : Finally(r)

Spec == Init /\ [][Next]_vars

(*************** the normalisation on every engine output ******************)
\* request 1 uploaded a PDF and ocr.predict has just returned `out`
InitNorm ==
    /\ started = TRUE
    /\ ocr = PrimaryConfig
    /\ loop = 1
    /\ pc = [r \in Req |-> IF r = 1 THEN "normalise" ELSE "idle"]
    /\ file = [r \in Req |-> IF r = 1 THEN <<"A", ".", "P", "D", "F">> ELSE <<>>]
    /\ upload_read = [r \in Req |-> r = 1]
    /\ temp_path = [r \in Req |->
                      IF r = 1 THEN TempPath(<<"A", ".", "P", "D", "F">>) ELSE NoPath]
    /\ input_data = [r \in Req |-> IF r = 1 THEN "path" ELSE "none"]
    /\ calls = [r \in Req |-> IF r = 1 THEN 1 ELSE 0]
    /\ orientation_used = [r \in Req |-> IF r = 1 THEN "on" ELSE "none"]
    /\ seen = [r \in Req |-> IF r = 1 THEN FileOf(1, "full") ELSE NotRead]
    /\ \E out \in EngineOutputs :
          prediction = [r \in Req |-> IF r = 1 THEN out ELSE <<>>]
    /\ pending = [r \in Req |-> NoResponse]
    /\ remove_failed = [r \in Req |-> FALSE]
    /\ response = [r \in Req |-> NoResponse]
    /\ fs = [p \in Paths |->
                IF p = TempPath(<<"A", ".", "P", "D", "F">>) THEN FileOf(1, "full")
                ELSE Absent]

NextNorm ==
    \/ BuildResponse(1)
    \/ Finally(1)

SpecNorm == InitNorm /\ [][NextNorm]_vars

(******************************** claims ***********************************)
Done(r) == pc[r] = "done"

\* the handler returned its dict
Succeeded(r) == Done(r) /\ response[r].kind = "return"

\* request r still has a file of its own on disk
LeftBehind(r) == \E p \in Paths : fs[p].owner = r

C2_TextIsJoinOfPages ==
    \A r \in Req :
        Succeeded(r) =>
            LET body == response[r].body
            IN  body.text = Join([i \in 1..Len(body.pages) |-> body.pages[i].text], NL)

\* C3: in every successful response, pages[i].line_count is the number of
\* entries of results whose page is pages[i].page_number.
C3_LineCountMatchesResults ==
    \A r \in Req :
        Succeeded(r) =>
            LET body == response[r].body
            IN  \A i \in 1..Len(body.pages) :
                    body.pages[i].line_count =
                        Cardinality({ j \in 1..Len(body.results) :
                                        body.results[j].page = body.pages[i].page_number })

\* every page of the output is a Contract A page
IsContractA(out) ==
    /\ out # <<>>
    /\ \A k \in 1..Len(out) : "lines" \in DOMAIN out[k]

\* the Contract B output with the same texts, scores, polygons and pages
ContractB(out) ==
    [k \in 1..Len(out) |->
        LET page == out[k].lines
        IN  [json |-> [rec_texts  |-> [i \in 1..Len(page) |-> page[i][2][1]],
                       rec_scores |-> [i \in 1..Len(page) |-> page[i][2][2]],
                       dt_polys   |-> [i \in 1..Len(page) |-> [ndarray |-> page[i][1]]]]]]

\* C4: an engine output in Contract A shape is answered 200 with the result
\* records that the equivalent Contract B output gives.
C4_ContractsAgree ==
    \A r \in Req :
        (Done(r) /\ IsContractA(prediction[r]) /\ ~remove_failed[r]) =>
            /\ response[r].kind = "return"
            /\ response[r].body.results = Normalise(ContractB(prediction[r])).raw_results

\* with no engine, a request is either not yet made or answered 503, and it
\* invoked nothing, read nothing and wrote nothing
C5_FailsFast ==
    (started /\ ocr = NoEngine) =>
        /\ \A r \in Req :
              /\ pc[r] \in {"idle", "done"}
              /\ Done(r) => response[r] = HTTPException(503, "PaddleOCR failed to initialize")
              /\ calls[r] = 0
              /\ ~upload_read[r]
              /\ temp_path[r] = NoPath
        /\ \A p \in Paths : fs[p] = Absent

\* C5: if both initialisation attempts failed, every POST /ocr returns 503
\* without invoking the engine, reading the upload or creating a temporary
\* file, and the handle never changes after startup.
C5_ServiceUnavailable == []C5_FailsFast /\ [][started => ocr' = ocr]_vars

\* no engine, and every request, whatever its filename, was answered 503
C5_Witness ==
    /\ started
    /\ ocr = NoEngine
    /\ \A r \in Req : Done(r) /\ response[r].status = 503
    /\ \E r \in Req : ~IsPdf(file[r])
    /\ \E r \in Req : IsPdf(file[r])

\* C6: if os.remove fails during cleanup, the caller still receives the outcome
\* the pipeline had determined (the 200 body or the 500 detail).
C6_CleanupFailureAbsorbed ==
    \A r \in Req : (Done(r) /\ remove_failed[r]) => response[r] = pending[r]

\* the page results declare no index, or the index of their own position
IndexesAreOrdinal(prediction_) ==
    \A k \in 1..Len(prediction_) :
        HasJson(prediction_[k]) =>
            ("page_index" \in DOMAIN Res(prediction_[k]) =>
                Res(prediction_[k]).page_index = k - 1)

PagesNumberedFromOne(body) ==
    /\ body.page_count = Len(body.pages)
    /\ \A i \in 1..Len(body.pages) : body.pages[i].page_number = i

\* C7 as stated: in every successful response the page_number values are
\* 1, 2, ..., page_count in list order, for every engine output.
C7_PagesContiguous ==
    \A r \in Req : Succeeded(r) => PagesNumberedFromOne(response[r].body)

\* C7 amended: in every successful response to an engine output whose page
\* results each declare no page_index or the index of their own position, the
\* page_number values are 1, 2, ..., page_count in list order.
C7_PagesContiguousForOrdinalIndexes ==
    \A r \in Req :
        (Succeeded(r) /\ IndexesAreOrdinal(prediction[r])) =>
            PagesNumberedFromOne(response[r].body)

\* a two-page answer where one page result declared its index and one did not
C7_Witness ==
    \E r \in Req :
        /\ Succeeded(r)
        /\ IndexesAreOrdinal(prediction[r])
        /\ Len(prediction[r]) = 2
        /\ "page_index" \notin DOMAIN Res(prediction[r][1])
        /\ "page_index" \in DOMAIN Res(prediction[r][2])
        /\ response[r].body.page_count = 2

\* request r passed the handle check and the input preparation, and is past
\* the engine call
PastEngineCall(r) == input_data[r] # "none" /\ pc[r] \in {"normalise", "finally", "done"}

InvokedOnce(r) ==
    /\ calls[r] <= 1
    /\ pc[r] = "predict" => calls[r] = 0
    /\ PastEngineCall(r) => calls[r] = 1

\* C8 as stated: whichever startup path initialised the engine, a request that
\* passes the handle check and input preparation invokes the engine exactly
\* once, and that invocation runs with orientation correction enabled.
C8_OnceWithOrientation ==
    \A r \in Req :
        /\ InvokedOnce(r)
        /\ PastEngineCall(r) => orientation_used[r] = "on"

\* C8 amended: such a request invokes the engine exactly once, with no retry;
\* the invocation runs with orientation correction enabled when the primary
\* configuration initialised the engine, and with the engine's own default
\* when the fallback configuration did.
C8_OnceWithOrientationIfPrimary ==
    \A r \in Req :
        /\ InvokedOnce(r)
        /\ (PastEngineCall(r) /\ ocr.config = "primary") => orientation_used[r] = "on"
        /\ (PastEngineCall(r) /\ ocr.config = "basic") =>
              orientation_used[r] = (IF ocr.use_textline_orientation THEN "on" ELSE "off")

\* under the primary configuration a request was recognised and answered 200
C8_Witness ==
    \E r \in Req :
        /\ ocr.config = "primary"
        /\ Succeeded(r)
        /\ calls[r] = 1
        /\ orientation_used[r] = "on"

OcrResponseKeys == {"text", "results", "pages", "page_count", "engine"}

IsOcrResponse(resp) ==
    /\ resp.kind = "return"
    /\ resp.status = 200
    /\ DOMAIN resp.body = OcrResponseKeys

IsError(resp, status) ==
    /\ resp.kind = "HTTPException"
    /\ resp.status = status
    /\ DOMAIN resp.body = {"detail"}

\* C9: every POST /ocr ends as 200 with a complete OcrResponse, 503 when the
\* engine is uninitialised, or 500 with a detail and no OCR data; a failed
\* input preparation gives 500 and comes before any engine invocation.
C9_ThreeOutcomes ==
    \A r \in Req :
        Done(r) =>
            /\ \/ IsOcrResponse(response[r])
               \/ IsError(response[r], 503) /\ ocr = NoEngine
               \/ IsError(response[r], 500)
            /\ (ocr # NoEngine /\ input_data[r] = "none") =>
                  IsError(response[r], 500) /\ calls[r] = 0

\* C10: the temporary file a request wrote is still its own, whole, when its
\* engine invocation starts and when the engine reads it.
C10_EngineReadsOwnFile ==
    \A r \in Req :
        /\ (pc[r] = "predict" /\ input_data[r] = "path") =>
              fs[temp_path[r]] = FileOf(r, "full")
        /\ seen[r] # NotRead => seen[r] = FileOf(r, "full")

\* two requests uploaded the same PDF name; one is suspended in its read
\* while the engine has read the other's file
C10_Witness ==
    \E r1 \in Req : \E r2 \in Req :
        /\ r1 # r2
        /\ file[r1] = file[r2]
        /\ IsPdf(file[r1])
        /\ pc[r2] = "read"
        /\ pc[r1] = "normalise"
        /\ seen[r1] = FileOf(r1, "full")

====
